---- MODULE Spec2Model ----
(***************************************************************************)
(* State-machine model of the operating-system simulator:                  *)
(*   procesos.py     Process, ProcessManager                               *)
(*   planificador.py Scheduler and its four specialisations                *)
(*   cli.py          CLI: the operations a user can invoke                 *)
(*   comunicacion.py MessageQueue, Semaphore, ProducerConsumer             *)
(* SystemResources (recursos.py) is modelled from its documented contract. *)
(* A pid is the index of the process in ProcessManager.processes; the      *)
(* Python value None is modelled by 0.                                     *)
(***************************************************************************)
EXTENDS Integers, Sequences, FiniteSets, TLC

\* ------------------------------------------------------------------ bounds
MaxProcs == 2
MaxBurst == 2
MaxPriority == 2
MaxMemory == 2
MaxQuantum == 2
MaxTime == 3
TotalMemory == 3
MaxRunProcs == 2
MaxRunBurst == 3
MaxRunCycles == 14
MaxMailPid == 2
MaxSends == 2
MaxBufferSize == 2
MaxLogs == 7
MaxConcLogs == 1
MaxSemInit == 2
MaxSemCalls == 4

None == 0

Algorithms == {"fcfs", "sjf", "priority", "round_robin"}

VARIABLES
    processes,            \* ProcessManager.processes: pid -> record
    ready_queue,          \* ProcessManager.ready_queue: sequence of pids
    cpu_available,        \* SystemResources.cpu_available
    available_memory,     \* SystemResources.available_memory
    scheduler_algorithm,  \* CLI.scheduler_algorithm
    quantum,              \* CLI.quantum, RoundRobinScheduler.quantum
    current_process,      \* Scheduler.current_process (None = 0)
    current_quantum,      \* RoundRobinScheduler.current_quantum
    time,                 \* Scheduler.time
    result,               \* outcome reported by the last operation
    trace,                \* history: events returned by the cycles of a run
    algorithm,            \* the name last passed to create_scheduler
    \* comunicacion.message_system
    process_queues,       \* MessageQueue.process_queues: pid -> queue
    now,                  \* time.time(), counted in sends
    mail_ret,             \* what the last MessageQueue call returned
    mail_sent,            \* history: messages enqueued, per receiver
    mail_recv,            \* history: messages returned by receive, per pid
    receivers,            \* concurrent callers of receive_message
    \* comunicacion.producer_consumer
    buffer_size,          \* ProducerConsumer.buffer_size
    buffer,               \* ProducerConsumer.buffer
    empty,                \* ProducerConsumer.empty.value
    full,                 \* ProducerConsumer.full.value
    mutex,                \* ProducerConsumer.mutex.value
    logs,                 \* ProducerConsumer.logs
    pc_ret,               \* what the last produce or consume returned
    produced,             \* history: items appended to the buffer
    consumed,             \* history: items popped from the buffer
    threads,              \* concurrent callers of produce and consume
    \* a comunicacion.Semaphore shared by threads
    value,                \* Semaphore.value
    lock,                 \* Semaphore.lock: the thread holding it, or None
    waiting,              \* threads blocked in Semaphore.condition.wait()
    callers,              \* where each thread is in acquire or release
    acquired,             \* history: number of acquire calls that returned
    released,             \* history: number of release calls performed
    initial               \* history: the value the Semaphore was built with

schedVars == <<processes, ready_queue, cpu_available, available_memory,
               scheduler_algorithm, quantum, current_process,
               current_quantum, time, result, trace, algorithm>>

mailHistory == <<now, mail_ret, mail_sent, mail_recv, receivers>>

mailVars == <<process_queues, now, mail_ret, mail_sent, mail_recv, receivers>>

pcVars == <<buffer_size, buffer, empty, full, mutex, logs, pc_ret, produced,
            consumed, threads>>

semVars == <<value, lock, waiting, callers, acquired, released, initial>>

vars == <<schedVars, mailVars, pcVars, semVars>>

Pids == DOMAIN processes

\* ------------------------------------------------------- procesos.Process
Process(priority, memory, burst_time) ==
    [state |-> "ready", priority |-> priority, memory |-> memory,
     burst_time |-> burst_time]

\* --------------------------------------------- recursos.SystemResources
AssignMemory(avail, memory) == avail - memory

ReleaseMemory(avail, memory) == avail + memory

\* ------------------------------------------------ the machine as a record
Machine ==
    [processes |-> processes, ready_queue |-> ready_queue,
     cpu_available |-> cpu_available, available_memory |-> available_memory,
     current_process |-> current_process, current_quantum |-> current_quantum,
     time |-> time]

Event(kind, pid) == [event |-> kind, process |-> pid]

\* ----------------------------------------------------------- list helpers
RECURSIVE IndexFrom(_, _, _)
IndexFrom(s, x, i) ==
    IF i > Len(s) THEN 0
    ELSE IF s[i] = x THEN i ELSE IndexFrom(s, x, i + 1)

IndexOf(s, x) == IndexFrom(s, x, 1)

\* list.remove(x): drops the first occurrence of x
ListRemove(s, x) ==
    LET i == IndexOf(s, x)
    IN  IF i = 0 THEN s
        ELSE [j \in 1..(Len(s) - 1) |-> IF j < i THEN s[j] ELSE s[j + 1]]

\* variant: the queue is left as it is
KeepPlace(s, x) == s

\* ready_queue.remove(x); ready_queue.append(x)
MoveToTail(s, x) == Append(ListRemove(s, x), x)

\* variant: the whole queue, whatever the states
ReadyProcessesAnyState(procs, rq) == rq

\* [p for p in ready_queue if p.state == "ready"]
ReadyProcesses(procs, rq) ==
    SelectSeq(rq, LAMBDA p : procs[p].state = "ready")

\* min(list, key=...): the first element whose key is minimal
RECURSIVE PyMinFrom(_, _, _, _)
PyMinFrom(s, key, i, best) ==
    IF i > Len(s) THEN best
    ELSE PyMinFrom(s, key, i + 1,
                   IF key[s[i]] < key[best] THEN s[i] ELSE best)

\* variant: the last element whose key is minimal
PyMinLast(s, key) ==
    LET RECURSIVE F(_, _)
        F(i, best) == IF i > Len(s) THEN best
                      ELSE F(i + 1, IF key[s[i]] <= key[best] THEN s[i] ELSE best)
    IN  F(2, s[1])

PyMin(s, key) == PyMinFrom(s, key, 2, s[1])

\* ------------------------------------------- planificador: the selections
\* the loop of FCFSScheduler.select_next_process: first process of the
\* queue in state ready, None when the loop ends
RECURSIVE FirstReadyFrom(_, _, _)
FirstReadyFrom(procs, rq, i) ==
    IF i > Len(rq) THEN None
    ELSE IF procs[rq[i]].state = "ready" THEN rq[i]
         ELSE FirstReadyFrom(procs, rq, i + 1)

\* variant: the last ready process of the queue
LastReady(procs, rq) ==
    LET r == ReadyProcesses(procs, rq)
    IN  IF r = <<>> THEN None ELSE r[Len(r)]

\* FCFSScheduler.select_next_process
FCFSSelect(procs, rq) == FirstReadyFrom(procs, rq, 1)

\* variant: minimum burst over the whole queue, whatever the states
SJFSelectAnyState(procs, rq) ==
    IF rq = <<>> THEN None
    ELSE PyMin(rq, [p \in DOMAIN procs |-> procs[p].burst_time])

\* SJFScheduler.select_next_process
SJFSelect(procs, rq) ==
    IF rq = <<>> THEN None
    ELSE LET ready_processes == ReadyProcesses(procs, rq)
         IN  IF ready_processes = <<>> THEN None
             ELSE PyMin(ready_processes,
                        [p \in DOMAIN procs |-> procs[p].burst_time])

\* PriorityScheduler.select_next_process
PrioritySelect(procs, rq) ==
    IF rq = <<>> THEN None
    ELSE LET ready_processes == ReadyProcesses(procs, rq)
         IN  IF ready_processes = <<>> THEN None
             ELSE PyMin(ready_processes,
                        [p \in DOMAIN procs |-> procs[p].priority])

\* RoundRobinScheduler.select_next_process: it may requeue the current
\* process before it selects, and it resets the used quantum when it finds
\* a ready process.  Returns the machine it leaves and the process selected.
RRSelect(m, q) ==
    IF m.ready_queue = <<>> THEN [m |-> m, ret |-> None]
    ELSE
      LET cp == m.current_process
          m1 == IF /\ cp # None
                   /\ m.processes[cp].state = "running"
                   /\ m.current_quantum >= q
                THEN [m EXCEPT !.processes[cp].state = "ready",
                               !.ready_queue = MoveToTail(@, cp),
                               !.cpu_available = TRUE,
                               !.current_quantum = 0,
                               !.current_process = None]
                ELSE m
          r == FirstReadyFrom(m1.processes, m1.ready_queue, 1)
      IN  IF r # None
          THEN [m |-> [m1 EXCEPT !.current_quantum = 0], ret |-> r]
          ELSE [m |-> m1, ret |-> None]

\* self.select_next_process() as dispatched on the scheduler's class
Select(alg, m, q) ==
    CASE alg = "fcfs" ->
           [m |-> m, ret |-> FCFSSelect(m.processes, m.ready_queue)]
      [] alg = "sjf" ->
           [m |-> m, ret |-> SJFSelect(m.processes, m.ready_queue)]
      [] alg = "priority" ->
           [m |-> m, ret |-> PrioritySelect(m.processes, m.ready_queue)]
      [] alg = "round_robin" -> RRSelect(m, q)

\* --------------------------------------------- planificador: execute_cycle
\* variant: the CPU flag is not consulted
CpuFreeUnchecked(m) == TRUE

\* planificador.py:29  if self.resources.cpu_available
CpuFree(m) == m.cpu_available

\* planificador.py:41  if self.current_process.burst_time <= 0
BurstExhausted(burst_time) == burst_time <= 0

\* variant: preemption one tick later
QuantumExhaustedStrict(used, q, burst_time) == used > q /\ burst_time > 0

\* planificador.py:147  quantum used up and burst remaining
QuantumExhausted(used, q, burst_time) == used >= q /\ burst_time > 0

\* Scheduler.execute_cycle
BaseCycle(alg, m, q) ==
    LET m0 == [m EXCEPT !.time = @ + 1]
        cp == m0.current_process
    IN
    IF cp = None \/ m0.processes[cp].state # "running"
    THEN LET sel == Select(alg, m0, q)
             m1 == sel.m
             np == sel.ret
         IN  IF np # None /\ CpuFree(m1)
             THEN [m |-> [m1 EXCEPT !.cpu_available = FALSE,
                                    !.processes[np].state = "running",
                                    !.current_process = np],
                   result |-> Event("process_started", np)]
             ELSE [m |-> m1, result |-> Event("idle", None)]
    ELSE LET m1 == [m0 EXCEPT !.processes[cp].burst_time = @ - 1]
         IN  IF BurstExhausted(m1.processes[cp].burst_time)
             THEN [m |-> [m1 EXCEPT
                            !.processes[cp].state = "terminated",
                            !.cpu_available = TRUE,
                            !.available_memory =
                                ReleaseMemory(@, m1.processes[cp].memory),
                            !.current_process = None],
                   result |-> Event("process_completed", cp)]
             ELSE [m |-> m1, result |-> Event("process_running", cp)]

\* RoundRobinScheduler.execute_cycle
RRCycle(m, q) ==
    LET b == BaseCycle("round_robin", m, q)
        m1 == b.m
        cp == m1.current_process
    IN
    IF cp # None /\ m1.processes[cp].state = "running"
    THEN LET m2 == [m1 EXCEPT !.current_quantum = @ + 1]
         IN  IF QuantumExhausted(m2.current_quantum, q,
                                 m2.processes[cp].burst_time)
             THEN [m |-> [m2 EXCEPT !.processes[cp].state = "ready",
                                    !.cpu_available = TRUE,
                                    !.ready_queue = MoveToTail(@, cp),
                                    !.current_process = None,
                                    !.current_quantum = 0],
                   result |-> Event("process_preempted", cp)]
             ELSE [m |-> m2, result |-> b.result]
    ELSE b

\* self.scheduler.execute_cycle() as dispatched on the scheduler's class
Cycle(alg, m, q) ==
    IF alg = "round_robin" THEN RRCycle(m, q) ELSE BaseCycle(alg, m, q)

SetMachine(m) ==
    /\ processes' = m.processes
    /\ ready_queue' = m.ready_queue
    /\ cpu_available' = m.cpu_available
    /\ available_memory' = m.available_memory
    /\ current_process' = m.current_process
    /\ current_quantum' = m.current_quantum
    /\ time' = m.time

\* ------------------------------------------------------ cli: the guards
\* cli.py:61  if memory > self.resources.available_memory: return
MemoryFits(memory, avail) == ~(memory > avail)

\* variant: no test of the source state
SuspendAllowedAlways(p) == TRUE

\* cli.py:218  if process.state not in ["running", "ready"]: return
SuspendAllowed(p) == p.state \in {"running", "ready"}

\* variant: every state but running may be resumed
ResumeAllowedNotRunning(p) == p.state # "running"

\* cli.py:240  if process.state != "waiting": return
ResumeAllowed(p) == p.state = "waiting"

\* variant: no test of the source state
TerminateAllowedAlways(p) == TRUE

\* cli.py:257  if process.state == "terminated": return
TerminateAllowed(p) == p.state # "terminated"

\* ------------------------------------------- comunicacion: construction
NoThread == "none"

\* the threads that call produce and consume concurrently
Producers == {"p1", "p2"}

Consumers == {"c1", "c2"}

Threads == Producers \cup Consumers

\* the threads that share one Semaphore
SemThreads == {"t1", "t2", "t3"}

Receivers == {"r1", "r2"}

Items == {"a", "b"}

NoMessage == [sender |-> None, content |-> "", timestamp |-> 0]

\* MessageQueue.__init__ (no mailbox yet)
\* no caller is inside receive_message
ReceiversIdle == receivers = [t \in Receivers |-> [pc |-> "idle", pid |-> None]]

MailInit ==
    /\ ReceiversIdle
    /\ process_queues = [p \in {} |-> <<>>]
    /\ now = 0
    /\ mail_ret = [op |-> "none", pid |-> None, ok |-> FALSE,
                   message |-> NoMessage]
    /\ mail_sent = [p \in 1..MaxMailPid |-> <<>>]
    /\ mail_recv = [p \in 1..MaxMailPid |-> <<>>]

\* comunicacion.py:97  def __init__(self, buffer_size: int = 5)
DefaultBufferSize == 5

\* ProducerConsumer.__init__
PCInit(size) ==
    /\ buffer_size = size
    /\ buffer = <<>>
    /\ mutex = 1
    /\ empty = size
    /\ full = 0
    /\ logs = <<>>
    /\ pc_ret = [op |-> "none", ok |-> FALSE, item |-> ""]
    /\ produced = <<>>
    /\ consumed = <<>>
    /\ threads = [t \in Threads |-> [pc |-> "idle", item |-> ""]]

\* comunicacion.py:75  def __init__(self, initial_value: int = 1)
DefaultSemValue == 1

\* Semaphore.__init__
SemInit(initial_value) ==
    /\ value = initial_value
    /\ lock = NoThread
    /\ waiting = <<>>
    /\ callers = [t \in SemThreads |-> "idle"]
    /\ acquired = 0
    /\ released = 0
    /\ initial = initial_value

\* MessageQueue.create_queue
CreateQueue(pq, pid) ==
    IF pid \notin DOMAIN pq
    THEN [p \in DOMAIN pq \cup {pid} |-> IF p = pid THEN <<>> ELSE pq[p]]
    ELSE pq

\* ------------------------------------------------------------------- Init
\* cli.py:20  self.quantum = 2
DefaultQuantum == 2

\* CLI.__init__: empty process table, all resources free, FCFS scheduler
SchedInit ==
    /\ processes = <<>>
    /\ ready_queue = <<>>
    /\ cpu_available = TRUE
    /\ available_memory = TotalMemory
    /\ scheduler_algorithm = "fcfs"
    /\ quantum = DefaultQuantum
    /\ current_process = None
    /\ current_quantum = 0
    /\ time = 0
    /\ result = Event("none", None)
    /\ trace = <<>>
    /\ algorithm = "fcfs"

\* the program once its modules are loaded and the CLI is constructed
Init ==
    /\ SchedInit
    /\ MailInit
    /\ PCInit(DefaultBufferSize)
    /\ SemInit(DefaultSemValue)

\* ---------------------------------------------------------------- actions
\* CLI.create_process_interactive with ProcessManager.create_process
CreateProcess(priority, memory, burst_time) ==
    /\ Len(processes) < MaxProcs
    /\ IF MemoryFits(memory, available_memory)
       THEN LET pid == Len(processes) + 1
            IN  /\ processes' = Append(processes,
                                       Process(priority, memory, burst_time))
                /\ ready_queue' = Append(ready_queue, pid)
                /\ available_memory' = AssignMemory(available_memory, memory)
                /\ process_queues' = CreateQueue(process_queues, pid)
                /\ result' = Event("created", pid)
       ELSE /\ UNCHANGED <<processes, ready_queue, available_memory,
                           process_queues>>
            /\ result' = Event("create_rejected", None)
    /\ UNCHANGED <<cpu_available, scheduler_algorithm, quantum,
                   current_process, current_quantum, time, trace, algorithm>>
    /\ UNCHANGED <<mailHistory, pcVars, semVars>>

\* CLI.change_algorithm with CLI._setup_scheduler: a new scheduler object
\* replaces the old one (Scheduler.__init__, RoundRobinScheduler.__init__)
ChangeAlgorithm(alg, q) ==
    /\ algorithm' = alg
    /\ scheduler_algorithm' = alg
    /\ quantum' = IF alg = "round_robin" THEN q ELSE quantum
    /\ current_process' = None
    /\ current_quantum' = 0
    /\ time' = 0
    /\ result' = Event("algorithm_changed", None)
    /\ UNCHANGED <<processes, ready_queue, cpu_available, available_memory,
                   trace>>
    /\ UNCHANGED <<mailVars, pcVars, semVars>>

\* one iteration of CLI.run_simulation: self.scheduler.execute_cycle()
ExecuteCycle ==
    /\ time < MaxTime
    /\ LET c == Cycle(scheduler_algorithm, Machine, quantum)
       IN  /\ SetMachine(c.m)
           /\ result' = c.result
    /\ UNCHANGED <<scheduler_algorithm, quantum, trace, algorithm>>
    /\ UNCHANGED <<mailVars, pcVars, semVars>>

\* variant: the CPU flag is left as it is
CpuKept(p, cpu) == cpu

\* cli.py:223, 262  if process.state == "running": cpu_available = True
FreeCpuIfRunning(p, cpu) == IF p.state = "running" THEN TRUE ELSE cpu

\* CLI.suspend_process
SuspendProcess(pid) ==
    /\ IF pid \in Pids /\ SuspendAllowed(processes[pid])
       THEN /\ cpu_available' = FreeCpuIfRunning(processes[pid], cpu_available)
            /\ processes' = [processes EXCEPT ![pid].state = "waiting"]
            /\ result' = Event("suspended", pid)
       ELSE /\ UNCHANGED <<cpu_available, processes>>
            /\ result' = Event("suspend_rejected", None)
    /\ UNCHANGED <<ready_queue, available_memory, scheduler_algorithm,
                   quantum, current_process, current_quantum, time, trace,
                   algorithm>>
    /\ UNCHANGED <<mailVars, pcVars, semVars>>

\* CLI.resume_process
ResumeProcess(pid) ==
    /\ IF pid \in Pids /\ ResumeAllowed(processes[pid])
       THEN /\ processes' = [processes EXCEPT ![pid].state = "ready"]
            /\ result' = Event("resumed", pid)
       ELSE /\ UNCHANGED processes
            /\ result' = Event("resume_rejected", None)
    /\ UNCHANGED <<ready_queue, cpu_available, available_memory,
                   scheduler_algorithm, quantum, current_process,
                   current_quantum, time, trace, algorithm>>
    /\ UNCHANGED <<mailVars, pcVars, semVars>>

\* CLI.terminate_process
TerminateProcess(pid) ==
    /\ IF pid \in Pids /\ TerminateAllowed(processes[pid])
       THEN /\ cpu_available' = FreeCpuIfRunning(processes[pid], cpu_available)
            /\ available_memory' =
                   ReleaseMemory(available_memory, processes[pid].memory)
            /\ processes' = [processes EXCEPT ![pid].state = "terminated"]
            /\ result' = Event("terminated", pid)
       ELSE /\ UNCHANGED <<cpu_available, available_memory, processes>>
            /\ result' = Event("terminate_rejected", None)
    /\ UNCHANGED <<ready_queue, scheduler_algorithm, quantum,
                   current_process, current_quantum, time, trace, algorithm>>
    /\ UNCHANGED <<mailVars, pcVars, semVars>>

Next ==
    \/ \E priority \in 1..MaxPriority, memory \in 1..MaxMemory,
          burst_time \in 1..MaxBurst :
            CreateProcess(priority, memory, burst_time)
    \/ \E alg \in Algorithms, q \in 1..MaxQuantum : ChangeAlgorithm(alg, q)
    \/ ExecuteCycle
    \/ \E pid \in 1..MaxProcs : SuspendProcess(pid)
    \/ \E pid \in 1..MaxProcs : ResumeProcess(pid)
    \/ \E pid \in 1..MaxProcs : TerminateProcess(pid)

Spec == Init /\ [][Next]_vars

\* ------------------------------------------------- uninterrupted runs
\* A run of CLI.run_simulation on a freshly installed scheduler: the
\* processes were created (all ready, queue in creation order), the
\* algorithm was then chosen, and only cycles follow.  trace records the
\* events the cycles return.
RECURSIVE SumMemory(_, _)
SumMemory(procs, i) ==
    IF i > Len(procs) THEN 0
    ELSE (IF procs[i].state # "terminated" THEN procs[i].memory ELSE 0)
         + SumMemory(procs, i + 1)

FreshProcess ==
    [state : {"ready"}, priority : 1..MaxPriority, memory : 1..MaxMemory,
     burst_time : 1..MaxRunBurst]

InitRun ==
    /\ \E n \in 1..MaxRunProcs : processes \in [1..n -> FreshProcess]
    /\ SumMemory(processes, 1) <= TotalMemory
    /\ ready_queue = [i \in 1..Len(processes) |-> i]
    /\ cpu_available = TRUE
    /\ available_memory = TotalMemory - SumMemory(processes, 1)
    /\ scheduler_algorithm \in Algorithms
    /\ quantum \in 1..MaxQuantum
    /\ current_process = None
    /\ current_quantum = 0
    /\ time = 0
    /\ result = Event("algorithm_changed", None)
    /\ trace = <<>>
    /\ algorithm = scheduler_algorithm
    /\ process_queues = [p \in 1..Len(processes) |-> <<>>]
    /\ now = 0
    /\ mail_ret = [op |-> "none", pid |-> None, ok |-> FALSE,
                   message |-> NoMessage]
    /\ mail_sent = [p \in 1..MaxMailPid |-> <<>>]
    /\ mail_recv = [p \in 1..MaxMailPid |-> <<>>]
    /\ ReceiversIdle
    /\ PCInit(DefaultBufferSize)
    /\ SemInit(DefaultSemValue)

RunCycle ==
    /\ time < MaxRunCycles
    /\ LET c == Cycle(scheduler_algorithm, Machine, quantum)
       IN  /\ SetMachine(c.m)
           /\ result' = c.result
           /\ trace' = Append(trace, c.result)
    /\ UNCHANGED <<scheduler_algorithm, quantum, algorithm>>
    /\ UNCHANGED <<mailVars, pcVars, semVars>>

NextRun == RunCycle

SpecRun == InitRun /\ [][NextRun]_vars

\* the driver keeps calling execute_cycle
SpecRunFair == SpecRun /\ WF_vars(RunCycle)

\* scheduler.select_next_process() called by the driver itself, outside
\* execute_cycle; the result records the process it returned
SelectNextProcess ==
    /\ LET sel == Select(scheduler_algorithm, Machine, quantum)
       IN  /\ SetMachine(sel.m)
           /\ result' = Event("selected", sel.ret)
    /\ UNCHANGED <<scheduler_algorithm, quantum, trace, algorithm>>
    /\ UNCHANGED <<mailVars, pcVars, semVars>>

NextSelect == RunCycle \/ SelectNextProcess

\* a driver that both runs cycles and asks for the next process
SpecSelect == InitRun /\ [][NextSelect]_vars

\* ------------------------------------------ planificador: the factory
\* the names a caller may pass to create_scheduler
AlgorithmNames ==
    Algorithms \cup {"FCFS", "Sjf", "Round_Robin", "rr", "lottery", ""}

\* str.lower() on those names
Lower(name) ==
    CASE name = "FCFS" -> "fcfs"
      [] name = "Sjf" -> "sjf"
      [] name = "Round_Robin" -> "round_robin"
      [] OTHER -> name

\* variant: an unknown name yields the FCFS scheduler
CreateSchedulerDefaulting(name) ==
    LET a == Lower(name)
    IN  IF a \in {"sjf", "priority", "round_robin"}
        THEN [ok |-> TRUE, class |-> a]
        ELSE [ok |-> TRUE, class |-> "fcfs"]

\* SchedulerFactory.create_scheduler: the class of the scheduler it
\* returns, or ok = FALSE when it raises ValueError
CreateScheduler(name) ==
    LET a == Lower(name)
    IN  IF a = "fcfs" THEN [ok |-> TRUE, class |-> "fcfs"]
        ELSE IF a = "sjf" THEN [ok |-> TRUE, class |-> "sjf"]
        ELSE IF a = "priority" THEN [ok |-> TRUE, class |-> "priority"]
        ELSE IF a = "round_robin" THEN [ok |-> TRUE, class |-> "round_robin"]
        ELSE [ok |-> FALSE, class |-> "ValueError"]

\* self.scheduler = SchedulerFactory.create_scheduler(name, ..., q): the
\* assignment of cli.py:26 for any name; nothing is assigned when the
\* factory raises
SetupScheduler(name, q) ==
    LET made == CreateScheduler(name)
    IN  /\ algorithm' = name
        /\ IF made.ok
           THEN /\ scheduler_algorithm' = made.class
                /\ quantum' = IF made.class = "round_robin" THEN q ELSE quantum
                /\ current_process' = None
                /\ current_quantum' = 0
                /\ time' = 0
                /\ result' = Event("scheduler_created", None)
           ELSE /\ UNCHANGED <<scheduler_algorithm, quantum, current_process,
                               current_quantum, time>>
                /\ result' = Event("ValueError", None)
        /\ UNCHANGED <<processes, ready_queue, cpu_available,
                       available_memory, trace>>
        /\ UNCHANGED <<mailVars, pcVars, semVars>>

NextFactory ==
    \/ \E name \in AlgorithmNames, q \in 1..MaxQuantum :
          SetupScheduler(name, q)
    \/ ExecuteCycle

SpecFactory == InitRun /\ [][NextFactory]_vars

\* ------------------------------------------- comunicacion: MessageQueue
Contents == {"x", "y"}

\* variant: the newest message of the queue
QueueGetLast(q) ==
    [message |-> q[Len(q)], rest |-> SubSeq(q, 1, Len(q) - 1)]

\* queue.Queue.get(): the oldest message of the queue
QueueGet(q) == [message |-> Head(q), rest |-> Tail(q)]

\* variant: a missing mailbox is created by the send
SendMessageCreating(pq, sender_pid, receiver_pid, message, timestamp) ==
    LET pq1 == CreateQueue(pq, receiver_pid)
    IN  [pq |-> [pq1 EXCEPT ![receiver_pid] =
                    Append(@, [sender |-> sender_pid, content |-> message,
                               timestamp |-> timestamp])],
         ret |-> TRUE]

\* MessageQueue.send_message
SendMessage(pq, sender_pid, receiver_pid, message, timestamp) ==
    IF receiver_pid \notin DOMAIN pq
    THEN [pq |-> pq, ret |-> FALSE]
    ELSE LET formatted_message ==
                 [sender |-> sender_pid, content |-> message,
                  timestamp |-> timestamp]
         IN  [pq |-> [pq EXCEPT ![receiver_pid] =
                           Append(@, formatted_message)],
              ret |-> TRUE]

\* MessageQueue.receive_message; ok = FALSE stands for the return of None
ReceiveMessage(pq, pid) ==
    IF pid \notin DOMAIN pq
    THEN [pq |-> pq, ok |-> FALSE, message |-> NoMessage]
    ELSE IF Len(pq[pid]) = 0
    THEN [pq |-> pq, ok |-> FALSE, message |-> NoMessage]
    ELSE LET g == QueueGet(pq[pid])
         IN  [pq |-> [pq EXCEPT ![pid] = g.rest], ok |-> TRUE,
              message |-> g.message]

\* MessageQueue.get_queue_size
GetQueueSize(pq, pid) ==
    IF pid \notin DOMAIN pq THEN 0 ELSE Len(pq[pid])

\* message_system.create_queue(pid)
MailCreateQueue(pid) ==
    /\ process_queues' = CreateQueue(process_queues, pid)
    /\ mail_ret' = [op |-> "create_queue", pid |-> pid, ok |-> TRUE,
                    message |-> NoMessage]
    /\ UNCHANGED <<now, mail_sent, mail_recv, receivers>>
    /\ UNCHANGED <<schedVars, pcVars, semVars>>

\* message_system.send_message(sender_pid, receiver_pid, message)
MailSend(sender_pid, receiver_pid, message) ==
    /\ now < MaxSends
    /\ LET r == SendMessage(process_queues, sender_pid, receiver_pid,
                            message, now)
       IN  /\ process_queues' = r.pq
           /\ mail_ret' = [op |-> "send_message", pid |-> receiver_pid,
                           ok |-> r.ret, message |-> NoMessage]
           /\ mail_sent' =
                 IF r.ret
                 THEN [mail_sent EXCEPT ![receiver_pid] =
                         Append(@, [sender |-> sender_pid,
                                    content |-> message, timestamp |-> now])]
                 ELSE mail_sent
    /\ now' = now + 1
    /\ UNCHANGED <<mail_recv, receivers>>
    /\ UNCHANGED <<schedVars, pcVars, semVars>>

\* message_system.receive_message(pid)
MailReceive(pid) ==
    /\ LET r == ReceiveMessage(process_queues, pid)
       IN  /\ process_queues' = r.pq
           /\ mail_ret' = [op |-> "receive_message", pid |-> pid,
                           ok |-> r.ok, message |-> r.message]
           /\ mail_recv' = IF r.ok
                           THEN [mail_recv EXCEPT ![pid] = Append(@, r.message)]
                           ELSE mail_recv
    /\ UNCHANGED <<now, mail_sent, receivers>>
    /\ UNCHANGED <<schedVars, pcVars, semVars>>

NextMail ==
    \/ \E pid \in 1..MaxMailPid : MailCreateQueue(pid)
    \/ \E sender_pid \in 1..MaxMailPid, receiver_pid \in 1..MaxMailPid,
          message \in Contents :
            MailSend(sender_pid, receiver_pid, message)
    \/ \E pid \in 1..MaxMailPid : MailReceive(pid)

SpecMail == Init /\ [][NextMail]_vars

\* ------------------------- receive_message called from several threads
\* a thread enters receive_message(pid)
RecvCall(t, pid) ==
    /\ receivers[t].pc = "idle"
    /\ receivers' = [receivers EXCEPT ![t] = [pc |-> "r55", pid |-> pid]]
    /\ UNCHANGED <<process_queues, now, mail_ret, mail_sent, mail_recv>>
    /\ UNCHANGED <<schedVars, pcVars, semVars>>

\* thread t returns None
RecvNone(t) ==
    /\ receivers' = [receivers EXCEPT ![t] = [pc |-> "idle", pid |-> None]]
    /\ mail_ret' = [op |-> "receive_message", pid |-> receivers[t].pid,
                    ok |-> FALSE, message |-> NoMessage]

\* if pid not in self.process_queues: return None
RecvTestQueue(t) ==
    /\ receivers[t].pc = "r55"
    /\ IF receivers[t].pid \notin DOMAIN process_queues
       THEN RecvNone(t)
       ELSE /\ receivers' = [receivers EXCEPT ![t].pc = "r59"]
            /\ UNCHANGED mail_ret
    /\ UNCHANGED <<process_queues, now, mail_sent, mail_recv>>
    /\ UNCHANGED <<schedVars, pcVars, semVars>>

\* if self.process_queues[pid].empty(): return None
RecvTestEmpty(t) ==
    /\ receivers[t].pc = "r59"
    /\ IF Len(process_queues[receivers[t].pid]) = 0
       THEN RecvNone(t)
       ELSE /\ receivers' = [receivers EXCEPT ![t].pc = "r63"]
            /\ UNCHANGED mail_ret
    /\ UNCHANGED <<process_queues, now, mail_sent, mail_recv>>
    /\ UNCHANGED <<schedVars, pcVars, semVars>>

\* return self.process_queues[pid].get(): queue.Queue.get() takes the
\* oldest message, and on an empty queue suspends the thread until one is
\* put
RecvGet(t) ==
    /\ receivers[t].pc = "r63"
    /\ LET pid == receivers[t].pid
       IN  /\ Len(process_queues[pid]) > 0
           /\ LET g == QueueGet(process_queues[pid])
              IN  /\ process_queues' = [process_queues EXCEPT ![pid] = g.rest]
                  /\ mail_ret' = [op |-> "receive_message", pid |-> pid,
                                  ok |-> TRUE, message |-> g.message]
                  /\ mail_recv' = [mail_recv EXCEPT
                                     ![pid] = Append(@, g.message)]
    /\ receivers' = [receivers EXCEPT ![t] = [pc |-> "idle", pid |-> None]]
    /\ UNCHANGED <<now, mail_sent>>
    /\ UNCHANGED <<schedVars, pcVars, semVars>>

NextMailConc ==
    \/ \E pid \in 1..MaxMailPid : MailCreateQueue(pid)
    \/ \E sender_pid \in 1..MaxMailPid, receiver_pid \in 1..MaxMailPid,
          message \in Contents :
            MailSend(sender_pid, receiver_pid, message)
    \/ \E t \in Receivers, pid \in 1..MaxMailPid : RecvCall(t, pid)
    \/ \E t \in Receivers : RecvTestQueue(t)
    \/ \E t \in Receivers : RecvTestEmpty(t)
    \/ \E t \in Receivers : RecvGet(t)

\* the mailboxes with several threads receiving
SpecMailConc == Init /\ [][NextMailConc]_vars

\* ---------------------------------------- comunicacion: ProducerConsumer
\* the ProducerConsumer object as a record
PC ==
    [buffer_size |-> buffer_size, buffer |-> buffer, empty |-> empty,
     full |-> full, mutex |-> mutex, logs |-> logs]

\* the f-strings appended to ProducerConsumer.logs: who, what, the item
\* and the buffer length they print
LogEntry(who, what, item, count) ==
    [who |-> who, what |-> what, item |-> item, count |-> count]

\* semaphore.value -= 1
Down(v) == v - 1

\* variant: the increment is lost
UpLost(v) == v

\* semaphore.value += 1
Up(v) == v + 1

\* variant: the item is put at the head
BufferPrepend(buf, item) == <<item>> \o buf

\* self.buffer.append(item)
BufferAppend(buf, item) == Append(buf, item)

\* variant: the newest item is taken
BufferPopLast(buf) ==
    [item |-> buf[Len(buf)], rest |-> SubSeq(buf, 1, Len(buf) - 1)]

\* self.buffer.pop(0)
BufferPop(buf) == [item |-> Head(buf), rest |-> Tail(buf)]

\* ProducerConsumer.produce, called by a single caller
Produce(b, item) ==
    IF Len(b.buffer) >= b.buffer_size
    THEN [b |-> b, ret |-> FALSE]
    ELSE IF b.empty <= 0
    THEN [b |-> [b EXCEPT !.logs =
                    Append(@, LogEntry("Productor", "bloqueado", "",
                                       Len(b.buffer)))],
          ret |-> FALSE]
    ELSE LET b1 == [b EXCEPT !.empty = Down(@), !.mutex = Down(@)]
             b2 == [b1 EXCEPT !.buffer = BufferAppend(@, item)]
             b3 == [b2 EXCEPT !.logs =
                       Append(@, LogEntry("Productor", "producido", item,
                                          Len(b2.buffer)))]
         IN  [b |-> [b3 EXCEPT !.mutex = Up(@), !.full = Up(@)],
              ret |-> TRUE]

\* ProducerConsumer.consume, called by a single caller; ok = FALSE stands
\* for the return of None
Consume(b) ==
    IF Len(b.buffer) <= 0
    THEN [b |-> b, ok |-> FALSE, item |-> ""]
    ELSE IF b.full <= 0
    THEN [b |-> [b EXCEPT !.logs =
                    Append(@, LogEntry("Consumidor", "bloqueado", "",
                                       Len(b.buffer)))],
          ok |-> FALSE, item |-> ""]
    ELSE LET b1 == [b EXCEPT !.full = Down(@), !.mutex = Down(@)]
             got == BufferPop(b1.buffer)
             b2 == [b1 EXCEPT !.buffer = got.rest]
             b3 == [b2 EXCEPT !.logs =
                       Append(@, LogEntry("Consumidor", "consumido", got.item,
                                          Len(b2.buffer)))]
         IN  [b |-> [b3 EXCEPT !.mutex = Up(@), !.empty = Up(@)],
              ok |-> TRUE, item |-> got.item]

\* ProducerConsumer.get_buffer_status
GetBufferStatus(b) ==
    [buffer_size |-> b.buffer_size, items_in_buffer |-> Len(b.buffer),
     buffer_content |-> b.buffer, empty_slots |-> b.empty,
     full_slots |-> b.full]

\* ProducerConsumer.get_logs
GetLogs(b) == b.logs

SetPC(b) ==
    /\ buffer' = b.buffer
    /\ empty' = b.empty
    /\ full' = b.full
    /\ mutex' = b.mutex
    /\ logs' = b.logs
    /\ UNCHANGED buffer_size

\* producer_consumer.produce(item), as CLI.run_producer_consumer calls it
PCProduce(item) ==
    /\ Len(logs) < MaxLogs
    /\ LET r == Produce(PC, item)
       IN  /\ SetPC(r.b)
           /\ pc_ret' = [op |-> "produce", ok |-> r.ret, item |-> item]
           /\ produced' = IF r.ret THEN Append(produced, item) ELSE produced
    /\ UNCHANGED <<consumed, threads>>
    /\ UNCHANGED <<schedVars, mailVars, semVars>>

\* producer_consumer.consume(), as CLI.run_producer_consumer calls it
PCConsume ==
    /\ Len(logs) < MaxLogs
    /\ LET r == Consume(PC)
       IN  /\ SetPC(r.b)
           /\ pc_ret' = [op |-> "consume", ok |-> r.ok, item |-> r.item]
           /\ consumed' = IF r.ok THEN Append(consumed, r.item) ELSE consumed
    /\ UNCHANGED <<produced, threads>>
    /\ UNCHANGED <<schedVars, mailVars, semVars>>

BufferSizes == (1..MaxBufferSize) \cup {DefaultBufferSize}

\* a ProducerConsumer constructed with some buffer_size
InitPC ==
    /\ SchedInit
    /\ MailInit
    /\ \E size \in BufferSizes : PCInit(size)
    /\ SemInit(DefaultSemValue)

NextPC ==
    \/ \E item \in Items : PCProduce(item)
    \/ PCConsume

SpecPC == InitPC /\ [][NextPC]_vars

\* ------------------------- ProducerConsumer called from several threads
\* thread t moves to statement pc of its call
Goto(t, pc) == threads' = [threads EXCEPT ![t].pc = pc]

\* thread t returns from its call
Return(t, op, ok, item) ==
    /\ threads' = [threads EXCEPT ![t] = [pc |-> "idle", item |-> ""]]
    /\ pc_ret' = [op |-> op, ok |-> ok, item |-> item]

At(t, pc) == threads[t].pc = pc

\* a producer thread enters produce(item)
ProduceCall(t, item) ==
    /\ At(t, "idle")
    /\ Len(logs) < MaxConcLogs
    /\ threads' = [threads EXCEPT ![t] = [pc |-> "p123", item |-> item]]
    /\ UNCHANGED <<buffer_size, buffer, empty, full, mutex, logs, pc_ret,
                   produced, consumed>>
    /\ UNCHANGED <<schedVars, mailVars, semVars>>

\* if len(self.buffer) >= self.buffer_size: return False
ProduceTestLen(t) ==
    /\ At(t, "p123")
    /\ IF Len(buffer) >= buffer_size
       THEN Return(t, "produce", FALSE, threads[t].item)
       ELSE Goto(t, "p127") /\ UNCHANGED pc_ret
    /\ UNCHANGED <<buffer_size, buffer, empty, full, mutex, logs,
                   produced, consumed>>
    /\ UNCHANGED <<schedVars, mailVars, semVars>>

\* if self.empty.value <= 0: log "Productor bloqueado"; return False
ProduceTestEmpty(t) ==
    /\ At(t, "p127")
    /\ IF empty <= 0
       THEN /\ logs' = Append(logs, LogEntry("Productor", "bloqueado", "",
                                             Len(buffer)))
            /\ Return(t, "produce", FALSE, threads[t].item)
       ELSE Goto(t, "p131") /\ UNCHANGED <<logs, pc_ret>>
    /\ UNCHANGED <<buffer_size, buffer, empty, full, mutex,
                   produced, consumed>>
    /\ UNCHANGED <<schedVars, mailVars, semVars>>

\* self.empty.value -= 1
ProduceDownEmpty(t) ==
    /\ At(t, "p131")
    /\ empty' = Down(empty)
    /\ Goto(t, "p132")
    /\ UNCHANGED <<buffer_size, buffer, full, mutex, logs, pc_ret,
                   produced, consumed>>
    /\ UNCHANGED <<schedVars, mailVars, semVars>>

\* self.mutex.value -= 1
ProduceDownMutex(t) ==
    /\ At(t, "p132")
    /\ mutex' = Down(mutex)
    /\ Goto(t, "p135")
    /\ UNCHANGED <<buffer_size, buffer, empty, full, logs, pc_ret,
                   produced, consumed>>
    /\ UNCHANGED <<schedVars, mailVars, semVars>>

\* self.buffer.append(item)
ProduceAppend(t) ==
    /\ At(t, "p135")
    /\ buffer' = BufferAppend(buffer, threads[t].item)
    /\ produced' = Append(produced, threads[t].item)
    /\ Goto(t, "p136")
    /\ UNCHANGED <<buffer_size, empty, full, mutex, logs, pc_ret, consumed>>
    /\ UNCHANGED <<schedVars, mailVars, semVars>>

\* self.logs.append(f"Productor: item ... producido ...")
ProduceLog(t) ==
    /\ At(t, "p136")
    /\ logs' = Append(logs, LogEntry("Productor", "producido",
                                     threads[t].item, Len(buffer)))
    /\ Goto(t, "p138")
    /\ UNCHANGED <<buffer_size, buffer, empty, full, mutex, pc_ret,
                   produced, consumed>>
    /\ UNCHANGED <<schedVars, mailVars, semVars>>

\* self.mutex.value += 1
ProduceUpMutex(t) ==
    /\ At(t, "p138")
    /\ mutex' = Up(mutex)
    /\ Goto(t, "p139")
    /\ UNCHANGED <<buffer_size, buffer, empty, full, logs, pc_ret,
                   produced, consumed>>
    /\ UNCHANGED <<schedVars, mailVars, semVars>>

\* self.full.value += 1; return True
ProduceUpFull(t) ==
    /\ At(t, "p139")
    /\ full' = Up(full)
    /\ Return(t, "produce", TRUE, threads[t].item)
    /\ UNCHANGED <<buffer_size, buffer, empty, mutex, logs,
                   produced, consumed>>
    /\ UNCHANGED <<schedVars, mailVars, semVars>>

\* a consumer thread enters consume()
ConsumeCall(t) ==
    /\ At(t, "idle")
    /\ Len(logs) < MaxConcLogs
    /\ Goto(t, "c150")
    /\ UNCHANGED <<buffer_size, buffer, empty, full, mutex, logs, pc_ret,
                   produced, consumed>>
    /\ UNCHANGED <<schedVars, mailVars, semVars>>

\* if len(self.buffer) <= 0: return None
ConsumeTestLen(t) ==
    /\ At(t, "c150")
    /\ IF Len(buffer) <= 0
       THEN Return(t, "consume", FALSE, "")
       ELSE Goto(t, "c154") /\ UNCHANGED pc_ret
    /\ UNCHANGED <<buffer_size, buffer, empty, full, mutex, logs,
                   produced, consumed>>
    /\ UNCHANGED <<schedVars, mailVars, semVars>>

\* if self.full.value <= 0: log "Consumidor bloqueado"; return None
ConsumeTestFull(t) ==
    /\ At(t, "c154")
    /\ IF full <= 0
       THEN /\ logs' = Append(logs, LogEntry("Consumidor", "bloqueado", "",
                                             Len(buffer)))
            /\ Return(t, "consume", FALSE, "")
       ELSE Goto(t, "c158") /\ UNCHANGED <<logs, pc_ret>>
    /\ UNCHANGED <<buffer_size, buffer, empty, full, mutex,
                   produced, consumed>>
    /\ UNCHANGED <<schedVars, mailVars, semVars>>

\* self.full.value -= 1
ConsumeDownFull(t) ==
    /\ At(t, "c158")
    /\ full' = Down(full)
    /\ Goto(t, "c159")
    /\ UNCHANGED <<buffer_size, buffer, empty, mutex, logs, pc_ret,
                   produced, consumed>>
    /\ UNCHANGED <<schedVars, mailVars, semVars>>

\* self.mutex.value -= 1
ConsumeDownMutex(t) ==
    /\ At(t, "c159")
    /\ mutex' = Down(mutex)
    /\ Goto(t, "c162")
    /\ UNCHANGED <<buffer_size, buffer, empty, full, logs, pc_ret,
                   produced, consumed>>
    /\ UNCHANGED <<schedVars, mailVars, semVars>>

\* item = self.buffer.pop(0); on an empty list pop raises IndexError and
\* the call ends there
ConsumePop(t) ==
    /\ At(t, "c162")
    /\ IF Len(buffer) = 0
       THEN /\ Return(t, "IndexError", FALSE, "")
            /\ UNCHANGED <<buffer, consumed>>
       ELSE LET got == BufferPop(buffer)
            IN  /\ buffer' = got.rest
                /\ consumed' = Append(consumed, got.item)
                /\ threads' = [threads EXCEPT
                                 ![t] = [pc |-> "c163", item |-> got.item]]
                /\ UNCHANGED pc_ret
    /\ UNCHANGED <<buffer_size, empty, full, mutex, logs, produced>>
    /\ UNCHANGED <<schedVars, mailVars, semVars>>

\* self.logs.append(f"Consumidor: item ... consumido ...")
ConsumeLog(t) ==
    /\ At(t, "c163")
    /\ logs' = Append(logs, LogEntry("Consumidor", "consumido",
                                     threads[t].item, Len(buffer)))
    /\ Goto(t, "c165")
    /\ UNCHANGED <<buffer_size, buffer, empty, full, mutex, pc_ret,
                   produced, consumed>>
    /\ UNCHANGED <<schedVars, mailVars, semVars>>

\* self.mutex.value += 1
ConsumeUpMutex(t) ==
    /\ At(t, "c165")
    /\ mutex' = Up(mutex)
    /\ Goto(t, "c166")
    /\ UNCHANGED <<buffer_size, buffer, empty, full, logs, pc_ret,
                   produced, consumed>>
    /\ UNCHANGED <<schedVars, mailVars, semVars>>

\* self.empty.value += 1; return item
ConsumeUpEmpty(t) ==
    /\ At(t, "c166")
    /\ empty' = Up(empty)
    /\ Return(t, "consume", TRUE, threads[t].item)
    /\ UNCHANGED <<buffer_size, buffer, full, mutex, logs,
                   produced, consumed>>
    /\ UNCHANGED <<schedVars, mailVars, semVars>>

\* a ProducerConsumer of some small buffer_size shared by the threads
InitConc ==
    /\ SchedInit
    /\ MailInit
    /\ \E size \in 1..MaxBufferSize : PCInit(size)
    /\ SemInit(DefaultSemValue)

NextConc ==
    \/ \E t \in Producers, item \in Items : ProduceCall(t, item)
    \/ \E t \in Producers : ProduceTestLen(t)
    \/ \E t \in Producers : ProduceTestEmpty(t)
    \/ \E t \in Producers : ProduceDownEmpty(t)
    \/ \E t \in Producers : ProduceDownMutex(t)
    \/ \E t \in Producers : ProduceAppend(t)
    \/ \E t \in Producers : ProduceLog(t)
    \/ \E t \in Producers : ProduceUpMutex(t)
    \/ \E t \in Producers : ProduceUpFull(t)
    \/ \E t \in Consumers : ConsumeCall(t)
    \/ \E t \in Consumers : ConsumeTestLen(t)
    \/ \E t \in Consumers : ConsumeTestFull(t)
    \/ \E t \in Consumers : ConsumeDownFull(t)
    \/ \E t \in Consumers : ConsumeDownMutex(t)
    \/ \E t \in Consumers : ConsumePop(t)
    \/ \E t \in Consumers : ConsumeLog(t)
    \/ \E t \in Consumers : ConsumeUpMutex(t)
    \/ \E t \in Consumers : ConsumeUpEmpty(t)

SpecConc == InitConc /\ [][NextConc]_vars

\* --------------------------------------------- comunicacion: Semaphore
\* variant: a caller waits only on a negative value
MustWaitNegative(v) == v < 0

\* while self.value <= 0
MustWait(v) == v <= 0

\* the threads inside acquire or release
InCall == {t \in SemThreads : callers[t] # "idle"}

CallsLeft == acquired + released + Cardinality(InCall) < MaxSemCalls

SemGoto(t, pc) == callers' = [callers EXCEPT ![t] = pc]

\* a thread enters acquire()
AcquireCall(t) ==
    /\ callers[t] = "idle"
    /\ CallsLeft
    /\ SemGoto(t, "a82")
    /\ UNCHANGED <<value, lock, waiting, acquired, released, initial>>
    /\ UNCHANGED <<schedVars, mailVars, pcVars>>

\* with self.lock: the thread takes the lock once it is free; a thread
\* woken inside condition.wait() takes it again the same way
AcquireLock(t) ==
    /\ callers[t] \in {"a82", "a84woken"}
    /\ lock = NoThread
    /\ lock' = t
    /\ SemGoto(t, "a83")
    /\ UNCHANGED <<value, waiting, acquired, released, initial>>
    /\ UNCHANGED <<schedVars, mailVars, pcVars>>

\* while self.value <= 0: self.condition.wait() gives the lock up and
\* queues the thread behind the earlier waiters
AcquireTest(t) ==
    /\ callers[t] = "a83"
    /\ IF MustWait(value)
       THEN /\ lock' = NoThread
            /\ waiting' = Append(waiting, t)
            /\ SemGoto(t, "a84")
       ELSE /\ SemGoto(t, "a85")
            /\ UNCHANGED <<lock, waiting>>
    /\ UNCHANGED <<value, acquired, released, initial>>
    /\ UNCHANGED <<schedVars, mailVars, pcVars>>

\* self.value -= 1
AcquireDecrement(t) ==
    /\ callers[t] = "a85"
    /\ value' = Down(value)
    /\ SemGoto(t, "a86")
    /\ UNCHANGED <<lock, waiting, acquired, released, initial>>
    /\ UNCHANGED <<schedVars, mailVars, pcVars>>

\* the with block ends: the lock is released and acquire returns
AcquireReturn(t) ==
    /\ callers[t] = "a86"
    /\ lock' = NoThread
    /\ acquired' = acquired + 1
    /\ SemGoto(t, "idle")
    /\ UNCHANGED <<value, waiting, released, initial>>
    /\ UNCHANGED <<schedVars, mailVars, pcVars>>

\* a thread enters release()
ReleaseCall(t) ==
    /\ callers[t] = "idle"
    /\ CallsLeft
    /\ SemGoto(t, "r89")
    /\ UNCHANGED <<value, lock, waiting, acquired, released, initial>>
    /\ UNCHANGED <<schedVars, mailVars, pcVars>>

\* with self.lock
ReleaseLock(t) ==
    /\ callers[t] = "r89"
    /\ lock = NoThread
    /\ lock' = t
    /\ SemGoto(t, "r90")
    /\ UNCHANGED <<value, waiting, acquired, released, initial>>
    /\ UNCHANGED <<schedVars, mailVars, pcVars>>

\* self.value += 1
ReleaseIncrement(t) ==
    /\ callers[t] = "r90"
    /\ value' = Up(value)
    /\ SemGoto(t, "r91")
    /\ UNCHANGED <<lock, waiting, acquired, released, initial>>
    /\ UNCHANGED <<schedVars, mailVars, pcVars>>

\* variant: notify wakes nobody
ReleaseNotifyNone(t) ==
    /\ callers[t] = "r91"
    /\ SemGoto(t, "r92")
    /\ UNCHANGED <<value, lock, waiting, acquired, released, initial>>
    /\ UNCHANGED <<schedVars, mailVars, pcVars>>

\* self.condition.notify(): the longest-waiting thread, if any, is woken
ReleaseNotify(t) ==
    /\ callers[t] = "r91"
    /\ IF waiting = <<>>
       THEN /\ SemGoto(t, "r92")
            /\ UNCHANGED waiting
       ELSE /\ callers' = [callers EXCEPT ![t] = "r92",
                                          ![Head(waiting)] = "a84woken"]
            /\ waiting' = Tail(waiting)
    /\ UNCHANGED <<value, lock, acquired, released, initial>>
    /\ UNCHANGED <<schedVars, mailVars, pcVars>>

\* the with block ends: the lock is released and release returns
ReleaseReturn(t) ==
    /\ callers[t] = "r92"
    /\ lock' = NoThread
    /\ released' = released + 1
    /\ SemGoto(t, "idle")
    /\ UNCHANGED <<value, waiting, acquired, initial>>
    /\ UNCHANGED <<schedVars, mailVars, pcVars>>

\* one Semaphore built with some initial value and shared by the threads
InitSem ==
    /\ SchedInit
    /\ MailInit
    /\ PCInit(DefaultBufferSize)
    /\ \E initial_value \in 0..MaxSemInit : SemInit(initial_value)

NextSem ==
    \/ \E t \in SemThreads : AcquireCall(t)
    \/ \E t \in SemThreads : AcquireLock(t)
    \/ \E t \in SemThreads : AcquireTest(t)
    \/ \E t \in SemThreads : AcquireDecrement(t)
    \/ \E t \in SemThreads : AcquireReturn(t)
    \/ \E t \in SemThreads : ReleaseCall(t)
    \/ \E t \in SemThreads : ReleaseLock(t)
    \/ \E t \in SemThreads : ReleaseIncrement(t)
    \/ \E t \in SemThreads : ReleaseNotify(t)
    \/ \E t \in SemThreads : ReleaseReturn(t)

SpecSem == InitSem /\ [][NextSem]_vars

\* the steps a thread takes once it is inside acquire or release
SemStep(t) ==
    \/ AcquireLock(t)
    \/ AcquireTest(t)
    \/ AcquireDecrement(t)
    \/ AcquireReturn(t)
    \/ ReleaseLock(t)
    \/ ReleaseIncrement(t)
    \/ ReleaseNotify(t)
    \/ ReleaseReturn(t)

\* fair thread scheduling: a thread that can go on inside its call
\* eventually does; whether a call is made at all is up to the caller
SpecSemFair == SpecSem /\ \A t \in SemThreads : WF_vars(SemStep(t))

\* ================================================================= claims
StateOf(p) == processes[p].state

Running == {p \in Pids : StateOf(p) = "running"}

PosInQueue(p) == IndexOf(ready_queue, p)

CycleStep == time' = time + 1

\* C1: in every reachable state at most one process is in state running,
\* whatever the algorithm and whatever cycles, creations, suspensions,
\* resumptions and terminations came before.
C1_AtMostOneRunning == Cardinality(Running) <= 1

\* a process holds the CPU, another one is ready, and the scheduler object
\* was replaced meanwhile, so that it no longer knows the running process
C1_Witness ==
    /\ \E p \in Pids : StateOf(p) = "running"
    /\ \E p \in Pids : StateOf(p) = "ready"
    /\ current_process = None
    /\ result.event = "idle"

\* C2: available memory stays within 0..total and equals the total minus
\* the memory of the processes that are not terminated: memory is taken
\* once at creation and given back exactly once at termination.
C2_MemoryAccounting ==
    /\ 0 <= available_memory
    /\ available_memory <= TotalMemory
    /\ available_memory = TotalMemory - SumMemory(processes, 1)

\* one process ended by burst completion, another by terminate
C2_Witness ==
    /\ result.event = "terminated"
    /\ \E p \in Pids : StateOf(p) = "terminated" /\ processes[p].burst_time = 0
    /\ \E p \in Pids : StateOf(p) = "terminated" /\ processes[p].burst_time > 0
    /\ available_memory = TotalMemory

\* C3: under FCFS without administrative operations a process enters
\* running only when every process ahead of it in the ready queue is
\* terminated.
C3_FCFSOrder ==
    [][scheduler_algorithm = "fcfs" =>
         \A p \in Pids :
            (StateOf(p) # "running" /\ processes'[p].state = "running") =>
               \A q \in Pids :
                  PosInQueue(q) < PosInQueue(p) => StateOf(q) = "terminated"]_vars

\* the second process created runs after the first one has completed
C3_Witness ==
    /\ scheduler_algorithm = "fcfs"
    /\ Len(processes) >= 2
    /\ StateOf(1) = "terminated"
    /\ StateOf(2) = "running"
    /\ Len(trace) > 0

CountEvents(kinds) ==
    Cardinality({i \in DOMAIN trace : trace[i].event \in kinds})

EventKinds == [i \in DOMAIN trace |-> trace[i].event]

IsPrefix(s, t) ==
    /\ Len(s) <= Len(t)
    /\ \A i \in 1..Len(s) : s[i] = t[i]

\* The run of one process under Round Robin with quantum 2 whose burst was
\* 3 when the run began: with a quantum of 2 every cycle that returns
\* running, completed or preempted has decremented the burst once.
C4_Scenario ==
    /\ scheduler_algorithm = "round_robin"
    /\ quantum = 2
    /\ Len(processes) = 1
    /\ processes[1].burst_time
         + CountEvents({"process_running", "process_completed",
                        "process_preempted"}) = 3

C4_Events ==
    <<"process_started", "process_preempted", "process_started",
      "process_preempted", "process_started", "process_completed">>

C4_Bursts == <<3, 2, 2, 1, 1, 0>>

CycleEvents ==
    {"process_started", "idle", "process_running", "process_completed",
     "process_preempted"}

Changed == {p \in Pids : processes'[p].state # StateOf(p)}

\* C5: a call of execute_cycle returns one event of the five kinds, changes
\* the state of at most one process, and never both starts and preempts a
\* process: the process it reports preempted was running before the call.
C5_OneTransitionPerCycle ==
    [][CycleStep =>
         /\ result'.event \in CycleEvents
         /\ Cardinality(Changed) <= 1
         /\ result'.event = "process_preempted" =>
               StateOf(result'.process) = "running"]_vars

Ready == {p \in Pids : StateOf(p) = "ready"}

\* C6: the SJF selection returns a ready process of minimum remaining
\* burst, the one earliest in the ready queue among those of that burst,
\* and returns none exactly when no process is ready.
C6_SJFSelection ==
    LET r == SJFSelect(processes, ready_queue)
    IN  /\ r = None <=> Ready = {}
        /\ r # None =>
             /\ r \in Ready
             /\ \A q \in Ready :
                   \/ processes[r].burst_time < processes[q].burst_time
                   \/ /\ processes[r].burst_time = processes[q].burst_time
                      /\ PosInQueue(r) <= PosInQueue(q)

\* SJF has just started the later-created of two processes of equal burst,
\* which a Round Robin requeue had put ahead in the ready queue
C6_Witness ==
    /\ scheduler_algorithm = "sjf"
    /\ result.event = "process_started"
    /\ \E q \in Ready :
          /\ q < result.process
          /\ PosInQueue(result.process) < PosInQueue(q)
          /\ processes[q].burst_time = processes[result.process].burst_time

\* C7: the Priority selection returns a ready process of minimum priority
\* value, the one earliest in the ready queue among those of that value,
\* and returns none exactly when no process is ready.
C7_PrioritySelection ==
    LET r == PrioritySelect(processes, ready_queue)
    IN  /\ r = None <=> Ready = {}
        /\ r # None =>
             /\ r \in Ready
             /\ \A q \in Ready :
                   \/ processes[r].priority < processes[q].priority
                   \/ /\ processes[r].priority = processes[q].priority
                      /\ PosInQueue(r) <= PosInQueue(q)

\* Priority has just started the first of two processes of equal priority
C7_Witness ==
    /\ scheduler_algorithm = "priority"
    /\ result.event = "process_started"
    /\ \E q \in Ready :
          /\ PosInQueue(result.process) < PosInQueue(q)
          /\ processes[q].priority = processes[result.process].priority

\* C8: suspend succeeds only from running or ready and leaves waiting,
\* resume only from waiting and leaves ready, terminate only from a state
\* other than terminated and leaves terminated with the memory released;
\* suspend and terminate free the CPU when the process was running; a
\* rejected call changes no process, queue, CPU flag or memory counter.
C8_AdminOperations ==
    [][LET p == result'.process
       IN  /\ result'.event = "suspended" =>
                /\ StateOf(p) \in {"running", "ready"}
                /\ processes' = [processes EXCEPT ![p].state = "waiting"]
                /\ cpu_available' = (cpu_available \/ StateOf(p) = "running")
                /\ UNCHANGED <<ready_queue, available_memory>>
           /\ result'.event = "resumed" =>
                /\ StateOf(p) = "waiting"
                /\ processes' = [processes EXCEPT ![p].state = "ready"]
                /\ UNCHANGED <<ready_queue, cpu_available, available_memory>>
           /\ result'.event = "terminated" =>
                /\ StateOf(p) # "terminated"
                /\ processes' = [processes EXCEPT ![p].state = "terminated"]
                /\ cpu_available' = (cpu_available \/ StateOf(p) = "running")
                /\ available_memory' = available_memory + processes[p].memory
                /\ UNCHANGED ready_queue
           /\ result'.event \in {"suspend_rejected", "resume_rejected",
                                 "terminate_rejected"} =>
                UNCHANGED <<processes, ready_queue, cpu_available,
                            available_memory, current_process,
                            current_quantum, time>>]_vars

\* a running process has just been suspended, which freed the CPU
C8_Witness ==
    /\ result.event = "suspended"
    /\ current_process = result.process
    /\ StateOf(result.process) = "waiting"
    /\ cpu_available

SevenEdges ==
    {<<"ready", "running">>, <<"running", "ready">>,
     <<"running", "waiting">>, <<"ready", "waiting">>,
     <<"waiting", "ready">>, <<"running", "terminated">>,
     <<"ready", "terminated">>}

\* C9 as stated: every change of a process's state is one of seven edges.
C9_SevenEdgesOnly ==
    [][\A p \in Pids :
          processes'[p].state # StateOf(p) =>
             <<StateOf(p), processes'[p].state>> \in SevenEdges]_vars

\* C9 (amended): every change of a process's state is one of the seven
\* edges or waiting -> terminated, which terminate performs on a
\* suspended process.
C9_LegalEdges ==
    [][\A p \in Pids :
          processes'[p].state # StateOf(p) =>
             <<StateOf(p), processes'[p].state>>
                \in SevenEdges \cup {<<"waiting", "terminated">>}]_vars

\* a process was terminated by terminate before it ever ran to completion
\* while another one is suspended
C9_Witness ==
    /\ result.event = "terminated"
    /\ StateOf(result.process) = "terminated"
    /\ processes[result.process].burst_time > 0
    /\ \E q \in Pids : StateOf(q) = "waiting"

\* C10: a terminated process keeps its state and its remaining burst in
\* every step, and no algorithm selects it.
C10_TerminatedIsTerminal ==
    /\ [](\A alg \in Algorithms, q \in 1..MaxQuantum :
             LET r == Select(alg, Machine, q).ret
             IN  r # None => StateOf(r) # "terminated")
    /\ [][\A p \in Pids :
             StateOf(p) = "terminated" => processes'[p] = processes[p]]_vars

\* a process was started after another one had terminated
C10_Witness ==
    /\ result.event = "process_started"
    /\ \E p \in Pids : StateOf(p) = "terminated"

FactoryStep == result'.event \in {"scheduler_created", "ValueError"}

SchedulerUntouched ==
    UNCHANGED <<processes, ready_queue, cpu_available, available_memory,
                scheduler_algorithm, quantum, current_process,
                current_quantum, time>>

\* C11 as stated: a name other than fcfs, sjf, priority and round_robin
\* makes the construction fail and leaves scheduler, process table and
\* resources as they were.
C11_AsStated ==
    [][(FactoryStep /\ algorithm' \notin Algorithms) =>
          /\ result'.event = "ValueError"
          /\ SchedulerUntouched]_vars

\* C11 (amended): the name is compared after lowercasing.  A name whose
\* lowercase form is none of the four makes the construction fail and
\* leaves scheduler, process table and resources as they were; a
\* construction that succeeds yields the scheduler of the lowercased name,
\* never a default.
C11_UnknownAlgorithm ==
    [][FactoryStep =>
          /\ Lower(algorithm') \notin Algorithms =>
                /\ result'.event = "ValueError"
                /\ SchedulerUntouched
          /\ result'.event = "scheduler_created" =>
                /\ scheduler_algorithm' = Lower(algorithm')
                /\ UNCHANGED <<processes, ready_queue, cpu_available,
                               available_memory>>]_vars

\* an unknown name was refused while a process holds the CPU
C11_Witness ==
    /\ result.event = "ValueError"
    /\ algorithm = "lottery"
    /\ current_process # None
    /\ StateOf(current_process) = "running"

Mailboxes == DOMAIN process_queues

\* C12: in every mailbox the messages come out in the order they went in,
\* with sender and content as sent: what was sent to a pid is what was
\* received from it followed by what is still queued.  A successful send
\* makes size(pid) one larger, a successful receive one smaller, and
\* neither touches another pid's mailbox.
C12_MailboxFIFO ==
    /\ [](\A pid \in Mailboxes :
             mail_sent[pid] = mail_recv[pid] \o process_queues[pid])
    /\ [][LET pid == mail_ret'.pid
          IN  /\ (mail_ret'.op = "send_message" /\ mail_ret'.ok) =>
                   /\ GetQueueSize(process_queues', pid)
                        = GetQueueSize(process_queues, pid) + 1
                   /\ \A o \in Mailboxes \ {pid} :
                         process_queues'[o] = process_queues[o]
              /\ (mail_ret'.op = "receive_message" /\ mail_ret'.ok) =>
                   /\ GetQueueSize(process_queues', pid)
                        = GetQueueSize(process_queues, pid) - 1
                   /\ mail_ret'.message = Head(process_queues[pid])
                   /\ \A o \in Mailboxes \ {pid} :
                         process_queues'[o] = process_queues[o]]_vars

\* two messages of different content were received from one mailbox
C12_Witness ==
    \E pid \in Mailboxes :
       /\ Len(mail_recv[pid]) = 2
       /\ mail_recv[pid][1].content # mail_recv[pid][2].content
       /\ mail_recv[pid][1].timestamp < mail_recv[pid][2].timestamp

\* C13: a send to a pid without mailbox returns failure, creates no
\* mailbox and changes no mailbox; afterwards the size of that pid is 0
\* and a receive from it returns none.  Only create_queue adds a mailbox.
C13_SendWithoutMailbox ==
    [][/\ (mail_ret'.op = "send_message" /\ mail_ret'.pid \notin Mailboxes) =>
             /\ ~mail_ret'.ok
             /\ process_queues' = process_queues
             /\ GetQueueSize(process_queues', mail_ret'.pid) = 0
             /\ ~ReceiveMessage(process_queues', mail_ret'.pid).ok
       /\ (mail_ret'.op = "send_message" /\ ~mail_ret'.ok) =>
             mail_ret'.pid \notin Mailboxes]_vars

\* a send to a pid without mailbox has failed while another mailbox holds
\* a message
C13_Witness ==
    /\ mail_ret.op = "send_message"
    /\ ~mail_ret.ok
    /\ mail_ret.pid \notin Mailboxes
    /\ \E o \in Mailboxes : Len(process_queues[o]) > 0

ProduceStep == pc_ret'.op = "produce"

ConsumeStep == pc_ret'.op = "consume"

\* C14: with one caller, produce succeeds exactly when the buffer holds
\* fewer than buffer_size items and then puts the item at the tail;
\* otherwise it changes neither the buffer nor the slot counts.  consume
\* returns none exactly when the buffer is empty and then changes nothing.
\* The buffer never holds more than buffer_size items.
C14_BoundedBuffer ==
    /\ [](Len(buffer) >= 0 /\ Len(buffer) <= buffer_size)
    /\ [][/\ ProduceStep =>
               /\ pc_ret'.ok <=> Len(buffer) < buffer_size
               /\ pc_ret'.ok => buffer' = Append(buffer, pc_ret'.item)
               /\ ~pc_ret'.ok => UNCHANGED <<buffer, empty, full>>
          /\ ConsumeStep =>
               /\ ~pc_ret'.ok <=> Len(buffer) = 0
               /\ ~pc_ret'.ok => UNCHANGED <<buffer, empty, full>>]_vars

\* a produce was refused on a full buffer of two different items
C14_Witness ==
    /\ pc_ret.op = "produce"
    /\ ~pc_ret.ok
    /\ Len(buffer) = buffer_size
    /\ buffer_size >= 2
    /\ buffer[1] # buffer[2]
    /\ Len(consumed) > 0

\* C15: the items consumed so far, followed by the items in the buffer,
\* are the items produced so far, in the order of production.
C15_BufferFIFO == produced = consumed \o buffer

\* two different items were consumed and one produced later is queued
C15_Witness ==
    /\ Len(consumed) >= 2
    /\ consumed[1] # consumed[2]
    /\ Len(buffer) >= 1
    /\ pc_ret.op = "consume"
    /\ pc_ret.ok

\* C16: after every call empty + full = buffer_size, full is the number
\* of items queued, no count is negative, the mutual-exclusion count is 1,
\* and get_buffer_status reports these values.
C16_SlotCounts ==
    LET status == GetBufferStatus(PC)
    IN  /\ empty + full = buffer_size
        /\ full = Len(buffer)
        /\ empty >= 0
        /\ full >= 0
        /\ mutex = 1
        /\ status.buffer_size = buffer_size
        /\ status.items_in_buffer = Len(buffer)
        /\ status.empty_slots = buffer_size - Len(buffer)
        /\ status.full_slots = Len(buffer)

\* a consume was refused on a buffer emptied by earlier consumes
C16_Witness ==
    /\ pc_ret.op = "consume"
    /\ ~pc_ret.ok
    /\ Len(consumed) >= 2
    /\ empty = buffer_size

\* C19: every call of produce or consume, a refused one included, appends
\* exactly one entry to the log and leaves the earlier entries as they
\* were.
C19_EveryAttemptLogged ==
    [][(ProduceStep \/ ConsumeStep) =>
          /\ Len(GetLogs(PC)') = Len(GetLogs(PC)) + 1
          /\ SubSeq(logs', 1, Len(logs)) = logs]_vars

RECURSIVE Occurrences(_, _)
Occurrences(s, x) ==
    IF s = <<>> THEN 0
    ELSE (IF Head(s) = x THEN 1 ELSE 0) + Occurrences(Tail(s), x)

\* C17: with several producers and consumers interleaved statement by
\* statement, the buffer never holds more than buffer_size items, the
\* empty and full counts are never negative, and every item produced is
\* either still queued or consumed exactly once.
C17_ConcurrentSafety ==
    /\ Len(buffer) <= buffer_size
    /\ empty >= 0
    /\ full >= 0
    /\ \A x \in Items :
          Occurrences(produced, x) =
              Occurrences(consumed, x) + Occurrences(buffer, x)

\* C18: however acquire and release calls on one Semaphore interleave,
\* its value is never negative and the acquire calls that have returned
\* never outnumber the initial value plus the release calls performed.
C18_SemaphoreSafety ==
    /\ value >= 0
    /\ acquired <= initial + released

\* built with value 0: one acquire has returned after a release while
\* another caller is still waiting
C18_Witness ==
    /\ initial = 0
    /\ acquired = 1
    /\ released >= 1
    /\ value = released - 1
    /\ \E t \in SemThreads : callers[t] = "a84"

\* the running process is on its last tick of burst and of quantum
LastTick(p) ==
    /\ scheduler_algorithm = "round_robin"
    /\ current_process = p
    /\ StateOf(p) = "running"
    /\ processes[p].burst_time = 1
    /\ current_quantum + 1 >= quantum

\* C20: whenever a cycle emits process_preempted, the preempted process
\* has burst left, is ready and is the last element of the ready queue,
\* the CPU is free and the used-quantum counter is 0; a running process
\* whose burst reaches 0 on the tick that exhausts its quantum is
\* completed and terminated, not preempted.
C20_Preemption ==
    [][CycleStep =>
          /\ result'.event = "process_preempted" =>
               LET p == result'.process
               IN  /\ p \in Pids
                   /\ processes'[p].burst_time > 0
                   /\ processes'[p].state = "ready"
                   /\ ready_queue' # <<>>
                   /\ ready_queue'[Len(ready_queue')] = p
                   /\ cpu_available'
                   /\ current_quantum' = 0
          /\ \A p \in Pids :
               LastTick(p) =>
                   /\ result' = Event("process_completed", p)
                   /\ processes'[p].state = "terminated"]_vars

\* the process at the head of a queue of two was preempted to its tail
\* after running one tick
C20_Witness ==
    /\ result = Event("process_preempted", 1)
    /\ ready_queue = <<2, 1>>
    /\ StateOf(2) = "ready"
    /\ scheduler_algorithm = "round_robin"
    /\ quantum = 2
    /\ time = 2

\* C21: a call of the Round Robin select_next_process, in any reachable
\* state and also while a process is running, changes no process state,
\* does not reorder the ready queue, does not free the CPU and does not
\* alter the used-quantum counter.
C21_SelectIsPure ==
    [][(result'.event = "selected" /\ scheduler_algorithm = "round_robin")
           => UNCHANGED <<processes, ready_queue, cpu_available,
                          current_quantum>>]_vars

\* C22: a cycle lowers by exactly 1 the burst of the process that is
\* running when the call begins and leaves every other burst as it was;
\* no burst is ever negative.
C22_BurstDecrement ==
    /\ [](\A p \in Pids : processes[p].burst_time >= 0)
    /\ [][CycleStep =>
             \A p \in Pids :
                processes'[p].burst_time =
                    IF StateOf(p) = "running"
                    THEN processes[p].burst_time - 1
                    ELSE processes[p].burst_time]_vars

AcquirePcs == {"a82", "a83", "a84", "a84woken", "a85", "a86"}

\* the acquire calls made so far, returned or not
AcquireCalls ==
    acquired + Cardinality({t \in SemThreads : callers[t] \in AcquirePcs})

\* the callers in W are blocked in acquire on value 0, nobody else is
\* inside a call, and r0 releases have been performed
Blocked(W, r0) ==
    /\ W # {}
    /\ value = 0
    /\ released = r0
    /\ \A t \in SemThreads :
          callers[t] = IF t \in W THEN "a84" ELSE "idle"

Returned(W) == \A t \in W : callers[t] = "idle"

\* C23 as stated: once k callers are blocked in acquire on value 0 and k
\* releases have then been performed, all of those k callers eventually
\* return from acquire.
C23_AsStated ==
    \A W \in SUBSET SemThreads : \A r0 \in 0..MaxSemCalls :
        [](Blocked(W, r0) =>
              [](released >= r0 + Cardinality(W) => <>Returned(W)))

\* C23: once k callers are blocked in acquire on value 0 and k releases
\* have then been performed, k acquire calls eventually return, and they
\* are the k blocked ones unless a further acquire call was made in the
\* meantime; the acquire calls returned never outnumber the initial value
\* plus the releases, so one release lets at most one blocked caller go.
C23_NoLostWakeup ==
    /\ \A W \in SUBSET SemThreads : \A r0 \in 0..MaxSemCalls :
          [](Blocked(W, r0) =>
                [](released >= r0 + Cardinality(W) =>
                      /\ <>(acquired >= initial + r0 + Cardinality(W))
                      /\ <>(\/ Returned(W)
                            \/ AcquireCalls >
                                   initial + r0 + Cardinality(W))))
    /\ [](acquired <= initial + released)

\* built with value 0: after two releases one acquire has returned and a
\* second caller, woken from its wait, is about to take the lock again
C23_Witness ==
    /\ initial = 0
    /\ released = 2
    /\ acquired = 1
    /\ value = 1
    /\ \E t \in SemThreads : callers[t] = "a84woken"

AllTerminated == \A p \in Pids : StateOf(p) = "terminated"

\* everything a cycle reads, that is the scheduler state without the clock
CycleInputs ==
    <<processes, ready_queue, cpu_available, available_memory,
      current_process, current_quantum>>

\* C24: for each algorithm and each quantum >= 1, with no suspend or
\* terminate calls, repeated cycles eventually leave every process
\* terminated, and from then on every cycle emits idle.  A cycle's effect
\* does not depend on the clock, so termination requires that no cycle
\* hands back an unfinished system exactly as it found it.
C24_AllTerminate ==
    /\ [][(CycleStep /\ ~AllTerminated) => CycleInputs' # CycleInputs]_vars
    /\ <>[]AllTerminated
    /\ [][(CycleStep /\ AllTerminated) => result'.event = "idle"]_vars

\* C25: in every reachable state the CPU is busy exactly when exactly one
\* process is running.
C25_CpuFlag == (~cpu_available) <=> (Cardinality(Running) = 1)

\* the running process was suspended: the CPU is free, nobody runs, and
\* the scheduler still points at the suspended process
C25_Witness ==
    /\ \E p \in Pids : /\ result = Event("suspended", p)
                       /\ current_process = p
                       /\ StateOf(p) = "waiting"
    /\ cpu_available
    /\ Running = {}
    /\ \E q \in Pids : StateOf(q) = "ready"

\* C26: replacing the scheduler while a process is running does not
\* strand the system: a later cycle that finds a process running either
\* lowers its burst or frees the CPU.  A cycle's effect does not depend on
\* the clock, so a cycle that hands back such a state exactly as it found
\* it is repeated by every later cycle, each of them idle.
C26_NotStranded ==
    [][(CycleStep /\ Running # {}) =>
          \/ \E p \in Running :
                processes'[p].burst_time = processes[p].burst_time - 1
          \/ cpu_available'
          \/ CycleInputs' # CycleInputs]_vars

\* the thread is inside queue.Queue.get() on an empty queue
Suspended(t) ==
    /\ receivers[t].pc = "r63"
    /\ Len(process_queues[receivers[t].pid]) = 0

\* C27: receive_message never suspends its caller, also when several
\* threads receive from the same pid at once, and what the calls have
\* returned are distinct queued messages, in the order they were sent.
C27_ReceiveNeverBlocks ==
    /\ \A t \in Receivers : ~Suspended(t)
    /\ \A pid \in Mailboxes :
          mail_sent[pid] = mail_recv[pid] \o process_queues[pid]

====
